---- MODULE Spec2Model ----
(***************************************************************************)
(* Model of takeSinglePhoto.py: main() as a sequential state machine.      *)
(* One action per statement group of main(); the camera library            *)
(* (irpythermal), numpy and cv2 are the environment, whose results are      *)
(* drawn with \E at the call that consumes them.                            *)
(*                                                                         *)
(* Optional Python values (None or a value) are sets with at most one      *)
(* element: None is {}, a present value v is {v}.                           *)
(* Floats are scaled integers: temperatures and offsets in tenths.         *)
(* Strings that the code inspects are sequences of one-character strings.  *)
(***************************************************************************)
EXTENDS Integers, Sequences, FiniteSets, TLC

\* ---------------------------------------------------------------- bounds
MaxN == 2        \* largest --stabilization value explored
MaxW == 2        \* largest camera.width explored

\* ------------------------------------------------------- optional values
None == {}
Some(v) == {v}
Val(o) == CHOOSE x \in o : TRUE

\* ------------------------------------------------------------ input sets
NPY == <<".", "n", "p", "y">>

Paths ==
  { <<>>,
    <<"a", ".", "n", "p", "y">>,
    <<".", "n", "p", "y">>,
    <<"a", ".", "b", "i", "n">>,
    <<"a", ".", "N", "P", "Y">> }

Devices == { <<"/", "d", "e", "v">> }

\* --offset values, in tenths: 0.0 and 1.5
Offsets == { 0, 15 }

RawCodes == { 100, 101 }

\* temperatures in tenths of a degree Celsius
Temps == { 235, 300 }

\* lookup tables camera.info() may return; raw code 100 is 23.5 degrees
Luts == { l \in [ RawCodes -> Temps ] : l[100] = 235 }

\* uint8 values a float NaN may be cast to by astype(np.uint8)
CastOfNaN == { 0, 255 }

\* camera.height: a degenerate sensor or a single row; the matrix is kept
\* flattened, so the width carries the number of elements
Heights == { 0, 1 }

\* <<camera.height, camera.width>> of an opened camera
Shapes == { <<h, w>> : h \in Heights, w \in 0 .. MaxW }

\* the namespaces argparse can return
ArgSpace ==
  [ rawcam : BOOLEAN,
    device : {None} \cup { Some(d) : d \in Devices },
    offset : {None} \cup { Some(o) : o \in Offsets },
    stabilization : -1 .. MaxN,
    high_range : BOOLEAN,
    file : {None} \cup { Some(p) : p \in Paths } ]

\* ------------------------------------------------------ Python semantics
\* str.endswith
EndsWith(s, suffix) ==
  /\ Len(s) >= Len(suffix)
  /\ SubSeq(s, Len(s) - Len(suffix) + 1, Len(s)) = suffix

\* truth value of an optional str: None and "" are false
TruthyStr(o) == o # None /\ Val(o) # <<>>

\* truth value of an optional float: None and 0.0 are false
TruthyFloat(o) == o # None /\ Val(o) # 0

\* variant: any non-empty positional path selects the emulator
UseEmulatorAnyPath(a) == TruthyStr(a.file)

\* the condition of the if at line 52
UseEmulator(a) == TruthyStr(a.file) /\ EndsWith(Val(a.file), NPY)

\* the keyword arguments built at lines 56-64, as a dict
CameraKwargs(a) ==
  (IF a.rawcam THEN "camera_raw" :> TRUE ELSE <<>>)
  @@ (IF TruthyStr(a.device) THEN "video_dev" :> Val(a.device) ELSE <<>>)
  @@ (IF TruthyFloat(a.offset) THEN "fixed_offset" :> Val(a.offset) ELSE <<>>)

\* variant: a loop that runs one time too many, range(n + 1)
RangeLenOffByOne(n) == IF n + 1 > 0 THEN n + 1 ELSE 0

\* range(n) has max(n, 0) elements
RangeLen(n) == IF n > 0 THEN n ELSE 0

VARIABLES
  pc,             \* position in main()
  args,           \* argparse namespace
  camera,         \* "none", "emulator" or "live"
  camera_kwargs,  \* dict passed to irpythermal.Camera, None for the emulator
  shape,          \* <<camera.height, camera.width>>
  rangeCalls,     \* number of temperature_range_high() calls
  rangeSignal,    \* last range-switch report: none, applied, unsupported
  activeRange,    \* temperature range the sensor is in: "normal" or "high"
  i,              \* stabilization reads issued so far (loop index)
  readLog,        \* history of camera.read() calls: [kind, result] each
  ret,            \* optional: success flag of the final read
  raw_frame,      \* optional: frame of the final read, [id, data]
  lut,            \* optional: lookup table from camera.info()
  temp_frame,     \* optional: temperature matrix, flattened row-major
  converted,      \* sequence of frame ids passed to convert_to_frame
  called,         \* numpy reductions invoked: subset of min, max, mean, std
  stats,          \* optional record temp_min, temp_max, temp_sum, temp_sq
  divisor,        \* optional: temp_max - temp_min as used at line 117
  temp_normalized,\* optional: the uint8 image
  artifacts,      \* files written
  released,       \* number of camera.release() calls
  outcome         \* "running", "done", "read_failure" or "raised:<what>"

vars == << pc, args, camera, camera_kwargs, shape, rangeCalls, rangeSignal,
           activeRange, i, readLog, ret,
           raw_frame, lut, temp_frame, converted, called, stats, divisor,
           temp_normalized, artifacts, released, outcome >>

Init ==
  /\ pc = "open"
  /\ args \in ArgSpace
  /\ camera = "none"
  /\ camera_kwargs = None
  /\ shape = <<0, 0>>
  /\ rangeCalls = 0
  /\ rangeSignal = "none"
  /\ activeRange = "normal"
  /\ i = 0
  /\ readLog = <<>>
  /\ ret = None
  /\ raw_frame = None
  /\ lut = None
  /\ temp_frame = None
  /\ converted = <<>>
  /\ called = {}
  /\ stats = None
  /\ divisor = None
  /\ temp_normalized = None
  /\ artifacts = {}
  /\ released = 0
  /\ outcome = "running"

\* what a range switch reports back: the sensor applied the high range, or
\* the hardware lacks the capability and the call did nothing
RangeSwitchSignals == { "applied", "unsupported" }

\* number of camera.read() calls issued so far; frame k is the one that
\* the k-th read returned
reads == Len(readLog)

ReadEntry(kind, result) == [ kind |-> kind, result |-> result ]

\* an uncaught exception leaves main() at once; nothing else runs
Raise(what) ==
  /\ pc' = "exit"
  /\ outcome' = "raised:" \o what

\* lines 52-66: construct the camera
OpenCamera ==
  /\ pc = "open"
  /\ \/ /\ UseEmulator(args)
        /\ \/ /\ camera' = "emulator"
              /\ camera_kwargs' = None
              /\ shape' \in Shapes
              /\ pc' = "stabilize"
              /\ UNCHANGED outcome
           \/ /\ Raise("InitializationError")
              /\ UNCHANGED << camera, camera_kwargs, shape >>
     \/ /\ ~UseEmulator(args)
        /\ \/ /\ camera' = "live"
              /\ camera_kwargs' = Some(CameraKwargs(args))
              /\ shape' \in Shapes
              /\ pc' = IF args.high_range THEN "range" ELSE "stabilize"
              /\ UNCHANGED outcome
           \/ /\ Raise("InitializationError")
              /\ UNCHANGED << camera, camera_kwargs, shape >>
  /\ UNCHANGED << args, rangeCalls, rangeSignal, activeRange, i, readLog,
                  ret, raw_frame, lut, temp_frame,
                  converted, called, stats, divisor, temp_normalized,
                  artifacts, released >>

\* variant: main() treats an unsupported range switch as fatal
SetHighRangeChecked ==
  /\ pc = "range"
  /\ rangeCalls' = rangeCalls + 1
  /\ \/ \E signal \in RangeSwitchSignals :
          /\ rangeSignal' = signal
          /\ activeRange' = IF signal = "applied" THEN "high" ELSE activeRange
          /\ IF signal = "unsupported"
               THEN Raise("range")
               ELSE pc' = "stabilize" /\ UNCHANGED outcome
     \/ /\ Raise("range")
        /\ UNCHANGED << rangeSignal, activeRange >>
  /\ UNCHANGED << args, camera, camera_kwargs, shape, i, readLog, ret,
                  raw_frame, lut, temp_frame, converted, called, stats, divisor,
                  temp_normalized, artifacts, released >>

\* lines 69-72: temperature_range_high() then wait_for_range_application();
\* neither result is inspected by main()
SetHighRange ==
  /\ pc = "range"
  /\ rangeCalls' = rangeCalls + 1
  /\ \/ \E signal \in RangeSwitchSignals :
          /\ rangeSignal' = signal
          /\ activeRange' = IF signal = "applied" THEN "high" ELSE activeRange
          /\ pc' = "stabilize"
          /\ UNCHANGED outcome
     \/ /\ Raise("range")
        /\ UNCHANGED << rangeSignal, activeRange >>
  /\ UNCHANGED << args, camera, camera_kwargs, shape, i, readLog, ret,
                  raw_frame, lut, temp_frame, converted, called, stats, divisor,
                  temp_normalized, artifacts, released >>

\* variant: a failed stabilization read ends the run like a failed final read
AfterDiscardAbortOnFailure(success) ==
  IF success
  THEN /\ i' = i + 1
       /\ UNCHANGED << pc, outcome, released >>
  ELSE /\ released' = released + 1
       /\ pc' = "exit"
       /\ outcome' = "read_failure"
       /\ UNCHANGED i

\* lines 81-84: the value of read() is dropped, the loop goes on
AfterDiscard(success) ==
  /\ i' = i + 1
  /\ UNCHANGED << pc, outcome, released >>

\* lines 80-84: one iteration of the stabilization loop; the result of
\* read() is not bound to anything
Stabilize ==
  /\ pc = "stabilize"
  /\ i < RangeLen(args.stabilization)
  /\ \/ \E success \in BOOLEAN :
          /\ readLog' = Append(readLog, ReadEntry("discard",
                                   IF success THEN "ok" ELSE "failed"))
          /\ AfterDiscard(success)
     \/ /\ readLog' = Append(readLog, ReadEntry("discard", "raised"))
        /\ Raise("read")
        /\ UNCHANGED << i, released >>
  /\ UNCHANGED << args, camera, camera_kwargs, shape, rangeCalls, rangeSignal,
                  activeRange, ret, raw_frame, lut, temp_frame, converted,
                  called, stats, divisor, temp_normalized, artifacts >>

\* raw frames a sensor of shape sh can deliver, flattened row-major
RawData(sh) == [ 1 .. sh[1] * sh[2] -> RawCodes ]

\* variant: the error is reported and the camera released, but the
\* return is missing
AfterFailedFinalReadNoReturn ==
  /\ released' = released + 1
  /\ pc' = "info"
  /\ UNCHANGED outcome

\* variant: the error is reported and main() returns, but the camera is
\* not released
AfterFailedFinalReadNoRelease ==
  /\ pc' = "exit"
  /\ outcome' = "read_failure"
  /\ UNCHANGED released

\* lines 89-92: report, release, return
AfterFailedFinalRead ==
  /\ released' = released + 1
  /\ pc' = "exit"
  /\ outcome' = "read_failure"

\* lines 88-92: the final read, reached when the loop is exhausted
FinalRead ==
  /\ pc = "stabilize"
  /\ i >= RangeLen(args.stabilization)
  /\ \/ \E data \in RawData(shape) :
          /\ readLog' = Append(readLog, ReadEntry("final", "ok"))
          /\ ret' = Some(TRUE)
          /\ raw_frame' = Some([ id |-> reads + 1, data |-> data ])
          /\ pc' = "info"
          /\ UNCHANGED << released, outcome >>
     \/ /\ readLog' = Append(readLog, ReadEntry("final", "failed"))
        /\ ret' = Some(FALSE)
        /\ raw_frame' = Some([ id |-> reads + 1, data |-> <<>> ])
        /\ AfterFailedFinalRead
     \/ /\ readLog' = Append(readLog, ReadEntry("final", "raised"))
        /\ Raise("read")
        /\ UNCHANGED << ret, raw_frame, released >>
  /\ UNCHANGED << args, camera, camera_kwargs, shape, rangeCalls, rangeSignal,
                  activeRange, i, lut, temp_frame, converted, called, stats,
                  divisor, temp_normalized, artifacts >>

\* line 95: info, lut = camera.info()
Info ==
  /\ pc = "info"
  /\ \/ /\ \E l \in Luts : lut' = Some(l)
        /\ pc' = "convert"
        /\ UNCHANGED outcome
     \/ /\ Raise("info")
        /\ UNCHANGED lut
  /\ UNCHANGED << args, camera, camera_kwargs, shape, rangeCalls, rangeSignal,
                  activeRange, i, readLog, ret, raw_frame, temp_frame, converted,
                  called, stats, divisor, temp_normalized, artifacts,
                  released >>

\* camera.convert_to_frame: every raw sample mapped through the table
ConvertToFrame(frame, l) == [ k \in 1 .. Len(frame.data) |-> l[frame.data[k]] ]

\* line 98: temp_frame = camera.convert_to_frame(raw_frame, lut)
Convert ==
  /\ pc = "convert"
  /\ \/ /\ temp_frame' = Some(ConvertToFrame(Val(raw_frame), Val(lut)))
        /\ converted' = Append(converted, Val(raw_frame).id)
        /\ pc' = "stats"
        /\ UNCHANGED outcome
     \/ /\ Raise("convert")
        /\ UNCHANGED << temp_frame, converted >>
  /\ UNCHANGED << args, camera, camera_kwargs, shape, rangeCalls, rangeSignal,
                  activeRange, i, readLog, ret, raw_frame, lut, called, stats,
                  divisor, temp_normalized, artifacts, released >>

\* reductions over a non-empty flattened matrix
RECURSIVE SeqMin(_)
SeqMin(m) ==
  IF Len(m) = 1 THEN m[1]
  ELSE LET r == SeqMin(Tail(m)) IN IF m[1] < r THEN m[1] ELSE r

RECURSIVE SeqMax(_)
SeqMax(m) ==
  IF Len(m) = 1 THEN m[1]
  ELSE LET r == SeqMax(Tail(m)) IN IF m[1] > r THEN m[1] ELSE r

RECURSIVE SeqSum(_)
SeqSum(m) == IF m = <<>> THEN 0 ELSE m[1] + SeqSum(Tail(m))

\* np.mean as the fraction sum / n; np.std as the square of its value,
\* the fraction (n * sum(x^2) - sum(x)^2) / n^2
Mean(m) == [ num |-> SeqSum(m), den |-> Len(m) ]
Variance(m) ==
  [ num |-> Len(m) * SeqSum([ k \in 1 .. Len(m) |-> m[k] * m[k] ])
            - SeqSum(m) * SeqSum(m),
    den |-> Len(m) * Len(m) ]

\* lines 101-104: np.min raises ValueError on a zero-size array, before
\* np.max, np.mean and np.std are reached
Statistics ==
  /\ pc = "stats"
  /\ LET m == Val(temp_frame) IN
       IF m = <<>>
       THEN /\ called' = called \cup { "min" }
            /\ Raise("ValueError")
            /\ UNCHANGED stats
       ELSE /\ called' = called \cup { "min", "max", "mean", "std" }
            /\ stats' = Some([ temp_min |-> SeqMin(m),
                               temp_max |-> SeqMax(m),
                               temp_mean |-> Mean(m),
                               temp_var |-> Variance(m) ])
            /\ pc' = "normalize"
            /\ UNCHANGED outcome
  /\ UNCHANGED << args, camera, camera_kwargs, shape, rangeCalls, rangeSignal,
                  activeRange, i, readLog, ret, raw_frame, lut,
                  temp_frame, converted, divisor, temp_normalized, artifacts,
                  released >>

\* line 117: ((temp_frame - temp_min) / (temp_max - temp_min) * 255)
\* .astype(np.uint8).  The division is numpy float division: x / 0 does not
\* raise, 0 / 0 is NaN, and the cast of NaN to uint8 is not defined.
\* Scaled values lie in 0 .. 255, where the cast truncates.
Normalized(m, lo, hi, nan) ==
  [ k \in 1 .. Len(m) |->
      IF hi - lo = 0 THEN nan ELSE ((m[k] - lo) * 255) \div (hi - lo) ]

Normalize ==
  /\ pc = "normalize"
  /\ LET st == Val(stats) IN
       /\ divisor' = Some(st.temp_max - st.temp_min)
       /\ \E nan \in CastOfNaN :
            temp_normalized' =
              Some(Normalized(Val(temp_frame), st.temp_min, st.temp_max, nan))
  /\ pc' = "png"
  /\ UNCHANGED << args, camera, camera_kwargs, shape, rangeCalls, rangeSignal,
                  activeRange, i, readLog, ret, raw_frame, lut,
                  temp_frame, converted, called, stats, artifacts, released,
                  outcome >>

\* one of the four writes: the file is produced, or the write raises
WriteStep(at, file, then) ==
  /\ pc = at
  /\ \/ /\ artifacts' = artifacts \cup { file }
        /\ pc' = then
        /\ UNCHANGED outcome
     \/ /\ Raise("write")
        /\ UNCHANGED artifacts
  /\ UNCHANGED << args, camera, camera_kwargs, shape, rangeCalls, rangeSignal,
                  activeRange, i, readLog, ret, raw_frame, lut,
                  temp_frame, converted, called, stats, divisor,
                  temp_normalized, released >>

\* lines 120-125
WritePng == WriteStep("png", "thermal.png", "npy")

\* lines 128-130
WriteNpy == WriteStep("npy", "thermal.npy", "meta")

\* lines 133-150
WriteMetadata == WriteStep("meta", "thermal.txt", "minmax")

\* lines 153-157
WriteMinMax == WriteStep("minmax", "thermal_minmax.txt", "release")

\* lines 160-161
Release ==
  /\ pc = "release"
  /\ released' = released + 1
  /\ outcome' = "done"
  /\ pc' = "exit"
  /\ UNCHANGED << args, camera, camera_kwargs, shape, rangeCalls, rangeSignal,
                  activeRange, i, readLog, ret, raw_frame, lut,
                  temp_frame, converted, called, stats, divisor,
                  temp_normalized, artifacts >>

\* ------------------------------------------------------------ properties
Exited == pc = "exit"

FailedDiscard(k) == readLog[k] = ReadEntry("discard", "failed")

NoReadRaised == \A k \in 1 .. Len(readLog) : readLog[k].result # "raised"

\* C1: once the camera was opened, release() has been called exactly once
\* by the time main() exits, whatever the exit path.
C1_ReleasedOnceOnEveryExit ==
  (Exited /\ camera # "none") => released = 1

\* C2: for N >= 0 the reads of a run are N discarded reads followed by one
\* final read: the final read is the (N+1)-th, nothing is read after it, and
\* with N = 0 the final read is the only one.
C2_ExactlyNDiscardsThenFinal ==
  args.stabilization >= 0 =>
    /\ Len(readLog) <= args.stabilization + 1
    /\ \A k \in 1 .. Len(readLog) :
         readLog[k].kind = IF k <= args.stabilization THEN "discard"
                                                      ELSE "final"
    /\ i <= args.stabilization
    /\ ret # None =>
         /\ Len(readLog) = args.stabilization + 1
         /\ i = args.stabilization
         /\ Val(raw_frame).id = args.stabilization + 1

C2_Witness ==
  /\ Exited
  /\ outcome = "done"
  /\ args.stabilization = 2
  /\ Len(readLog) = 3
  /\ readLog[3].kind = "final"

\* C3: a stabilization read that returns failure never ends the run: the
\* run is still going while the loop lasts, and a run that has exited
\* without a read raising has issued all N discard reads and then the final
\* read.
C3_FailedDiscardsDoNotAbort ==
  (\E k \in 1 .. Len(readLog) : FailedDiscard(k)) =>
    /\ pc = "stabilize" => (outcome = "running" /\ released = 0)
    /\ (Exited /\ NoReadRaised) =>
         /\ Len(readLog) = args.stabilization + 1
         /\ readLog[Len(readLog)].kind = "final"
         /\ \A k \in 1 .. args.stabilization : readLog[k].kind = "discard"

C3_Witness ==
  /\ Exited
  /\ args.stabilization = 2
  /\ Len(readLog) = 3
  /\ FailedDiscard(1)
  /\ FailedDiscard(2)
  /\ readLog[3].kind = "final"

\* C4: when the final read returns success = False the run has reported the
\* error, released the camera once and returned, and info(), conversion,
\* statistics, normalization and the four writes were never performed.
C4_FailedFinalReadEndsCleanly ==
  ret = Some(FALSE) =>
    /\ Exited
    /\ outcome = "read_failure"
    /\ released = 1
    /\ lut = None
    /\ temp_frame = None
    /\ converted = <<>>
    /\ called = {}
    /\ stats = None
    /\ divisor = None
    /\ temp_normalized = None
    /\ artifacts = {}

C4_Witness ==
  /\ ret = Some(FALSE)
  /\ Exited
  /\ readLog[Len(readLog)] = ReadEntry("final", "failed")

\* C5: the rescaling never divides by zero, and a matrix whose elements are
\* all equal is normalized to all zeros.
C5_NoDivisionByZero ==
  divisor # None =>
    /\ Val(divisor) # 0
    /\ Val(stats).temp_max = Val(stats).temp_min =>
         \A k \in 1 .. Len(Val(temp_normalized)) : Val(temp_normalized)[k] = 0

\* C6: a run whose temperature matrix is empty ends in EmptyInputError,
\* found before min, max, mean or std is invoked, with no statistics and no
\* artifacts.
C6_EmptyMatrixDetectedBeforeStatistics ==
  (Exited /\ temp_frame = Some(<<>>)) =>
    /\ outcome = "raised:EmptyInputError"
    /\ called = {}
    /\ stats = None
    /\ artifacts = {}

\* C7: convert_to_frame is called at most once, only after the final read
\* returned success, on the frame of that final, (N+1)-th read; the matrix
\* that is summarized and written is the conversion of that frame.
C7_OnlyFinalFrameConverted ==
  /\ Len(converted) <= 1
  /\ converted # <<>> =>
       /\ ret = Some(TRUE)
       /\ converted[1] = Val(raw_frame).id
       /\ readLog[converted[1]] = ReadEntry("final", "ok")
       /\ args.stabilization >= 0 => converted[1] = args.stabilization + 1
       /\ \A k \in 1 .. Len(readLog) :
            readLog[k].kind = "discard" => k # converted[1]
  /\ temp_frame # None =>
       /\ converted # <<>>
       /\ Len(Val(temp_frame)) = Len(Val(raw_frame).data)
       /\ \A k \in 1 .. Len(Val(temp_frame)) :
            Val(temp_frame)[k] = Val(lut)[Val(raw_frame).data[k]]
  /\ (stats # None \/ temp_normalized # None \/ artifacts # {}) =>
       temp_frame # None

C7_Witness ==
  /\ converted = << 3 >>
  /\ args.stabilization = 2
  /\ artifacts # {}
  /\ Len(Val(temp_frame)) > 0

\* C8 (as stated): the emulator is opened exactly when a positional path is
\* given, whatever the path.
C8_AnyPathSelectsEmulator ==
  camera # "none" => (camera = "emulator" <=> args.file # None)

\* C8 (amended): the emulator is opened exactly when a positional path that
\* ends in ".npy" is given; with no path, or a path with another ending, a
\* live camera is opened.
C8_NpyPathSelectsEmulator ==
  camera # "none" =>
    /\ camera \in { "emulator", "live" }
    /\ camera = "emulator" <=>
         /\ args.file # None
         /\ Len(Val(args.file)) >= 4
         /\ [ k \in 1 .. 4 |-> Val(args.file)[Len(Val(args.file)) - 4 + k] ]
              = NPY

C8_Witness ==
  /\ camera = "emulator"
  /\ args.file = Some(<<"a", ".", "n", "p", "y">>)

\* C9: for a live camera the fixed offset is in the configuration exactly
\* when --offset was supplied, with the supplied value, 0.0 included.
C9_OffsetAlwaysPassed ==
  camera = "live" =>
    /\ "fixed_offset" \in DOMAIN Val(camera_kwargs) <=> args.offset # None
    /\ args.offset # None =>
         /\ "fixed_offset" \in DOMAIN Val(camera_kwargs)
         /\ Val(camera_kwargs)["fixed_offset"] = Val(args.offset)

\* C10: a high-range request on a source without range switching (the
\* emulator, or a live sensor that reports unsupported) is a no-op: the run
\* does not raise on it and goes on to stabilization and the final read in
\* the range that was active.
C10_UnsupportedRangeSwitchIsNoOp ==
  (args.high_range /\ (camera = "emulator" \/ rangeSignal = "unsupported")) =>
    /\ activeRange = "normal"
    /\ outcome # "raised:range"
    /\ pc \notin { "open", "range" }
    /\ camera = "emulator" => rangeCalls = 0

C10_Witness ==
  /\ args.high_range
  /\ rangeSignal = "unsupported"
  /\ ret = Some(TRUE)

Next ==
  \/ OpenCamera
  \/ SetHighRange
  \/ Stabilize
  \/ FinalRead
  \/ Info
  \/ Convert
  \/ Statistics
  \/ Normalize
  \/ WritePng
  \/ WriteNpy
  \/ WriteMetadata
  \/ WriteMinMax
  \/ Release

Spec == Init /\ [][Next]_vars
====
